---------------------------- MODULE Spec2Model ----------------------------
(***************************************************************************)
(* Model of backend/nova_free.py: the free-tier chat mediation layer.      *)
(*                                                                         *)
(* Texts are TLA+ strings handled character by character (Len, SubSeq,     *)
(* \o), so the regular expressions of the source are modelled by what      *)
(* they match, position by position.  A position p of a text s names the   *)
(* place before character p; Len(s) + 1 is the end of the text.            *)
(*                                                                         *)
(* Character classes are those of Python's str patterns restricted to the  *)
(* ASCII characters a TLA+ string can hold: \s is space, \t, \n, \r, \f;   *)
(* \w is a letter, a digit or "_".  Two non-ASCII characters of the source *)
(* literals (a bullet and a typographic apostrophe) are written as "*"     *)
(* and "'": like the originals they are neither \w nor \s and occur in no  *)
(* pattern.  The backquote cannot be written in a TLA+ string at all: the  *)
(* character Tick stands for it wherever the source means a backquote.     *)
(***************************************************************************)
EXTENDS Integers, Sequences, FiniteSets, TLC

VARIABLES
    body,       \* the JSON body of the POST /api/chat request
    client,     \* get_client(): "configured" or "none"
    pc,         \* position of api_chat in its code
    last_user,  \* local last_user of api_chat (a value, see Values)
    mode,       \* local mode of api_chat
    calls,      \* the calls made to client.chat.completions.create
    result,     \* what client.chat.completions.create returned or raised
    response,   \* what the handler returned
    events,     \* trace of the steps api_chat has executed
    arg,        \* input of the pure function under study
    ret         \* its result

vars == <<body, client, pc, last_user, mode, calls, result, response, events, arg, ret>>

chatVars == <<body, client, pc, last_user, mode, calls, result, response, events>>

-----------------------------------------------------------------------------
(* Characters and positions *)

Min(a, b) == IF a <= b THEN a ELSE b

SetOfSeq(q) == {q[k] : k \in 1..Len(q)}

Ch(s, i) == SubSeq(s, i, i)

IsAt(s, i, w) ==
    /\ i >= 1
    /\ i + Len(w) - 1 <= Len(s)
    /\ SubSeq(s, i, i + Len(w) - 1) = w

\* Python: w in s
Contains(s, w) == \E i \in 1..(Len(s) - Len(w) + 1) : IsAt(s, i, w)

RECURSIVE Repeat(_, _)
\* Python: s * n
Repeat(s, n) ==
    IF n <= 0 THEN ""
    ELSE LET h == Repeat(s, n \div 2)
         IN IF n % 2 = 0 THEN h \o h ELSE h \o h \o s

ToLowerTable ==
    ("A" :> "a") @@ ("B" :> "b") @@ ("C" :> "c") @@ ("D" :> "d") @@
    ("E" :> "e") @@ ("F" :> "f") @@ ("G" :> "g") @@ ("H" :> "h") @@
    ("I" :> "i") @@ ("J" :> "j") @@ ("K" :> "k") @@ ("L" :> "l") @@
    ("M" :> "m") @@ ("N" :> "n") @@ ("O" :> "o") @@ ("P" :> "p") @@
    ("Q" :> "q") @@ ("R" :> "r") @@ ("S" :> "s") @@ ("T" :> "t") @@
    ("U" :> "u") @@ ("V" :> "v") @@ ("W" :> "w") @@ ("X" :> "x") @@
    ("Y" :> "y") @@ ("Z" :> "z")

UpperLetters == DOMAIN ToLowerTable

LowerLetters == {ToLowerTable[c] : c \in UpperLetters}

Digits == {"0", "1", "2", "3", "4", "5", "6", "7", "8", "9"}

LowerChar(c) == IF c \in UpperLetters THEN ToLowerTable[c] ELSE c

RECURSIVE LowerFrom(_, _)
\* s from position i on, with its upper-case letters replaced
LowerFrom(s, i) ==
    LET ups == {k \in i..Len(s) : Ch(s, k) \in UpperLetters}
    IN IF ups = {} THEN SubSeq(s, i, Len(s))
       ELSE LET p == CHOOSE p \in ups : \A q \in ups : p <= q
            IN SubSeq(s, i, p - 1) \o LowerChar(Ch(s, p)) \o LowerFrom(s, p + 1)

\* Python: s.lower(); also the folding of the (?i) flag
Lower(s) == LowerFrom(s, 1)

\* the backquote character of the source
Tick == "@"

\* \s
IsSpace(c) == c \in {" ", "\t", "\n", "\r", "\f"}

WordChars == UpperLetters \cup LowerLetters \cup Digits \cup {"_"}

\* \w
IsWord(c) == c \in WordChars

InClass(c, cls) ==
    CASE cls = "space"   -> IsSpace(c)
      [] cls = "word"    -> IsWord(c)
      [] cls = "dot"     -> c # "\n"
      [] cls = "notgt"   -> c # ">"
      [] cls = "nottick" -> c # Tick
      [] cls = "dashspace" -> c = "-" \/ IsSpace(c)

\* the first position at or after i whose character is not in cls
RunLimit(s, i, cls) ==
    CHOOSE p \in i..(Len(s) + 1) :
        /\ p = Len(s) + 1 \/ ~InClass(Ch(s, p), cls)
        /\ \A k \in i..(p - 1) : InClass(Ch(s, k), cls)

\* where cls* can stop when started at i
RunEnds(s, i, cls) == IF i > Len(s) + 1 THEN {} ELSE i..RunLimit(s, i, cls)

\* where cls+ can stop when started at i
RunEnds1(s, i, cls) == RunEnds(s, i, cls) \ {i}

WordAt(s, i) == i >= 1 /\ i <= Len(s) /\ IsWord(Ch(s, i))

\* \b at position i
Boundary(s, i) == WordAt(s, i - 1) # WordAt(s, i)

\* where literal w ends when it starts at i (at most one place)
LitEnds(s, i, w) == IF IsAt(s, i, w) THEN {i + Len(w)} ELSE {}

\* where one of the literals ws ends when it starts at i
AnyLitEnds(s, i, ws) == {i + Len(w) : w \in {w \in ws : IsAt(s, i, w)}}

\* where  a cls* b  or  a cls+ b  ends when it starts at i
GapLitEnds(s, i, a, cls, atLeastOne, b) ==
    IF IsAt(s, i, a)
    THEN LET from == i + Len(a)
             gaps == IF atLeastOne THEN RunEnds1(s, from, cls)
                                   ELSE RunEnds(s, from, cls)
         IN {q + Len(b) : q \in {q \in gaps : IsAt(s, q, b)}}
    ELSE {}

-----------------------------------------------------------------------------
(* Python values as the handler sees them.  A value is a record: kind is   *)
(* its type and s is the text str(value) gives (for a str, the str).       *)

Str(s) == [kind |-> "str", s |-> s]

None == [kind |-> "none", s |-> "None"]

\* a JSON number, the example of a content that is neither text nor falsy
Number == [kind |-> "int", s |-> "5"]

IsStr(v) == v.kind = "str"

\* bool(v)
Truthy(v) ==
    CASE v.kind = "str"  -> v.s # ""
      [] v.kind = "none" -> FALSE
      [] v.kind = "int"  -> v.s # "0"

\* the text of (v or d), for the calls whose argument must then be a str
StrOr(v, d) == IF Truthy(v) THEN v.s ELSE d

-----------------------------------------------------------------------------
(* DISALLOWED_INTENT: the input guard's pattern, flags (?is) *)

SpanLimit == 80

Verbs ==
    {"write", "generate", "show", "give", "make", "create", "produce",
     "draft", "provide", "print", "output", "debug", "fix", "patch",
     "refactor", "optimise", "optimize", "run", "execute", "compile",
     "build", "test"}

Nouns ==
    {"code", "script", "snippet", "example", "implementation", "program",
     "function", "class", "migration", "endpoint", "dockerfile", "yaml",
     "regex", "pattern", "schema", "table", "trigger"}

Languages == {"html", "css", "js", "javascript", "typescript", "sql"}

Artifacts == {"code", "snippet", "example", "template"}

\* (write|...|test|unit[-\s]*test) started at i
VerbEnds(l, i) ==
    AnyLitEnds(l, i, Verbs) \cup GapLitEnds(l, i, "unit", "dashspace", FALSE, "test")

\* (code|...|sql\s*query|...|api\s*route|...|stored\s*procedure) started at i
NounEnds(l, i) ==
    AnyLitEnds(l, i, Nouns)
        \cup GapLitEnds(l, i, "sql", "space", FALSE, "query")
        \cup GapLitEnds(l, i, "api", "space", FALSE, "route")
        \cup GapLitEnds(l, i, "stored", "space", FALSE, "procedure")

\* the span as .{0,8}? would match it
SpanEndsShort(l, g) == g..Min(g + 8, Len(l) + 1)

\* .{0,80}? started at g: under flag s the dot matches every character
SpanEnds(l, g) == g..Min(g + SpanLimit, Len(l) + 1)

\* where the noun can start after a verb that ended at e: \s+ .{0,80}?
NounStarts(l, e) == UNION {SpanEnds(l, g) : g \in RunEnds1(l, e, "space")}

\* verb \s+ .{0,80}? noun  started at i
VerbNounEnds(l, i) ==
    UNION {UNION {NounEnds(l, n) : n \in NounStarts(l, e)}
           : e \in VerbEnds(l, i)}

\* pseudocode | algorithm\s*steps  started at i
PseudoEnds(l, i) ==
    LitEnds(l, i, "pseudocode")
        \cup GapLitEnds(l, i, "algorithm", "space", FALSE, "steps")

\* (?:html|...|sql)\s+(?:code|snippet|example|template)  started at i
LanguageEnds(l, i) ==
    UNION {UNION {AnyLitEnds(l, g, Artifacts) : g \in RunEnds1(l, e, "space")}
           : e \in AnyLitEnds(l, i, Languages)}

\* DISALLOWED_INTENT.search(t): \b( ... | ... | ... )\b anywhere in t
DISALLOWED_INTENT(t) ==
    \E l \in {Lower(t)} : \E i \in 1..Len(l) :
        /\ Boundary(l, i)
        /\ \E e \in VerbNounEnds(l, i) \cup PseudoEnds(l, i) \cup LanguageEnds(l, i) :
              Boundary(l, e)

-----------------------------------------------------------------------------
(* detect_mode *)

Modes == <<"keywords", "outline", "brief", "meta", "research", "article">>

ModeTriggers ==
    <<{"keyword", "cluster"},
      {"outline", "h1", "h2"},
      {"brief", "content brief"},
      {"meta", "title tag", "meta description"},
      {"research", "sources", "summary"},
      {"article", "blog post", "write about"}>>

ModeTest(t, k) == \E w \in ModeTriggers[k] : Contains(t, w)

detect_mode_swapped(text) ==
    LET t == Lower(StrOr(text, ""))
    IN IF ModeTest(t, 1) THEN Modes[1]
       ELSE IF ModeTest(t, 3) THEN Modes[3]
       ELSE IF ModeTest(t, 2) THEN Modes[2]
       ELSE IF ModeTest(t, 4) THEN Modes[4]
       ELSE IF ModeTest(t, 5) THEN Modes[5]
       ELSE IF ModeTest(t, 6) THEN Modes[6]
       ELSE "general"

\* t = (text or "").lower(), then the tests in the order of the source
detect_mode(text) ==
    LET t == Lower(StrOr(text, ""))
    IN IF ModeTest(t, 1) THEN Modes[1]
       ELSE IF ModeTest(t, 2) THEN Modes[2]
       ELSE IF ModeTest(t, 3) THEN Modes[3]
       ELSE IF ModeTest(t, 4) THEN Modes[4]
       ELSE IF ModeTest(t, 5) THEN Modes[5]
       ELSE IF ModeTest(t, 6) THEN Modes[6]
       ELSE "general"

-----------------------------------------------------------------------------
(* CODE_PATTERNS and looks_like_code: the output guard *)

Fences == {Tick \o Tick \o Tick, "~~~"}

\* the alternatives of CODE_PATTERNS[1], lower-cased (flag i)
LeadKeywords ==
    {"import ", "from ", "def ", "class ", "function ", "const ", "let ",
     "var ", "#include", "using ", "package", "public ", "private",
     "template", "select ", "insert ", "update ", "create table",
     "<!doctype", "<html", "<script", "<style", "begin "}

ShellPhrases ==
    {"int main", "#!/", "pip install", "npm install", "conda ", "apt-get "}

\* ^ under flag m: the start of the text and the place after each line feed
LineStarts(s) == {1} \cup {i + 1 : i \in {i \in 1..Len(s) : Ch(s, i) = "\n"}}

\* $ under flag m: the end of the text and the place before each line feed
LineEnd(s, p) == p = Len(s) + 1 \/ (p <= Len(s) /\ Ch(s, p) = "\n")

\* $ without flag m: the end of the text, or before a line feed that ends it
TextEnd(s, p) == p = Len(s) + 1 \/ (p = Len(s) /\ Ch(s, p) = "\n")

\* a character position counted by str.count is one where the literal starts;
\* occurrences of a fence cannot overlap a counted one
RECURSIVE CountFrom(_, _, _)
CountFrom(s, w, i) ==
    LET hits == {k \in i..(Len(s) - Len(w) + 1) : IsAt(s, k, w)}
    IN IF hits = {} THEN 0
       ELSE LET k == CHOOSE k \in hits : \A h \in hits : k <= h
            IN 1 + CountFrom(s, w, k + Len(w))

\* Python: s.count(w)
Count(s, w) == CountFrom(s, w, 1)

\* CODE_PATTERNS[0]: a fence, three backquotes or three tildes
FencePattern(s) == \E f \in Fences : Contains(s, f)

\* CODE_PATTERNS[1]: (?mi)^\s*(import |from |...|BEGIN )
KeywordPattern(s) ==
    \E l \in {Lower(s)} :
        \E i \in LineStarts(l) : \E j \in RunEnds(l, i, "space") :
            AnyLitEnds(l, j, LeadKeywords) # {}

\* (;|\{|\})\s*$ ; multi says whether flag m is set
EnderShape(s, multi) ==
    \E i \in 1..Len(s) :
        /\ Ch(s, i) \in {";", "{", "}"}
        /\ \E e \in RunEnds(s, i + 1, "space") :
              IF multi THEN LineEnd(s, e) ELSE TextEnd(s, e)

\* ^\s*\w+\s*=\s*.+$ ; multi says whether flag m is set
AssignShape(s, multi) ==
    \E i \in (IF multi THEN LineStarts(s) ELSE {1}) :
      \E a \in RunEnds(s, i, "space") :
        \E b \in RunEnds1(s, a, "word") :
          \E c \in RunEnds(s, b, "space") :
            /\ IsAt(s, c, "=")
            /\ \E d \in RunEnds(s, c + 1, "space") :
                 \E e \in RunEnds1(s, d, "dot") :
                    IF multi THEN LineEnd(s, e) ELSE TextEnd(s, e)

\* ^\s*<[^>]+>\s*$ ; multi says whether flag m is set
TagShape(s, multi) ==
    \E i \in (IF multi THEN LineStarts(s) ELSE {1}) :
      \E a \in RunEnds(s, i, "space") :
        /\ IsAt(s, a, "<")
        /\ \E b \in RunEnds1(s, a + 1, "notgt") :
             /\ IsAt(s, b, ">")
             /\ \E e \in RunEnds(s, b + 1, "space") :
                   IF multi THEN LineEnd(s, e) ELSE TextEnd(s, e)

\* the same pattern without flag m
EnderPatternOneLine(s) == EnderShape(s, FALSE)

\* CODE_PATTERNS[2]: (?m)(;|\{|\})\s*$
EnderPattern(s) == EnderShape(s, TRUE)

\* CODE_PATTERNS[3]: (?mi)^\s*\w+\s*=\s*.+$
AssignPattern(s) == AssignShape(s, TRUE)

\* CODE_PATTERNS[4]: (?i)\b(int main|#!/|pip install|...|curl .* \| bash)\b
ShellPattern(s) ==
    \E l \in {Lower(s)} : \E i \in 1..Len(l) :
        /\ Boundary(l, i)
        /\ \E e \in AnyLitEnds(l, i, ShellPhrases)
                      \cup GapLitEnds(l, i, "curl ", "dot", FALSE, " | bash") :
              Boundary(l, e)

\* CODE_PATTERNS[5]: (?m)^\s*<[^>]+>\s*$
TagPattern(s) == TagShape(s, TRUE)

\* one inline span, Tick [^Tick]+ Tick, started at i
SpanEndsAt(s, i) ==
    IF IsAt(s, i, Tick)
    THEN {b + 1 : b \in {b \in RunEnds1(s, i + 1, "nottick") : IsAt(s, b, Tick)}}
    ELSE {}

\* CODE_PATTERNS[6]: span .* span .* span
InlineSpansPattern(s) ==
    \E i \in {i \in 1..Len(s) : Ch(s, i) = Tick} :
      \E e1 \in SpanEndsAt(s, i) :
        \E q1 \in RunEnds(s, e1, "dot") :
          \E e2 \in SpanEndsAt(s, q1) :
            \E q2 \in RunEnds(s, e2, "dot") :
               SpanEndsAt(s, q2) # {}

\* any(p.search(text) for p in CODE_PATTERNS)
AnyCodePattern(s) ==
    \/ FencePattern(s)
    \/ KeywordPattern(s)
    \/ EnderPattern(s)
    \/ AssignPattern(s)
    \/ ShellPattern(s)
    \/ TagPattern(s)
    \/ InlineSpansPattern(s)

\* the line boundaries of str.splitlines() among the characters of the model
LineBreaks == {"\n", "\r", "\f"}

\* the place after the line break that starts at p (\r\n is one break)
AfterBreak(s, p) == IF IsAt(s, p, "\r\n") THEN p + 2 ELSE p + 1

RECURSIVE SplitFrom(_, _)
SplitFrom(s, i) ==
    IF i > Len(s) THEN <<>>
    ELSE LET brk == {p \in i..Len(s) : Ch(s, p) \in LineBreaks}
         IN IF brk = {} THEN <<SubSeq(s, i, Len(s))>>
            ELSE LET p == CHOOSE p \in brk : \A q \in brk : p <= q
                 IN <<SubSeq(s, i, p - 1)>> \o SplitFrom(s, AfterBreak(s, p))

\* Python: s.splitlines()
splitlines(s) == SplitFrom(s, 1)

\* the length of s without its trailing white space
RStripLen(s) ==
    CHOOSE n \in 0..Len(s) :
        /\ n = 0 \/ ~IsSpace(Ch(s, n))
        /\ \A k \in (n + 1)..Len(s) : IsSpace(Ch(s, k))

\* Python: s.rstrip()
rstrip(s) == SubSeq(s, 1, RStripLen(s))

\* Python: not s.strip()
IsBlank(s) == RStripLen(s) = 0

\* l.endswith((';','{','}'))
EndsWithEnder(l) == Len(l) > 0 /\ Ch(l, Len(l)) \in {";", "{", "}"}

AssignLine(l) == AssignShape(l, FALSE)

TagLine(l) == TagShape(l, FALSE)

\* line 71: [l.rstrip() for l in text.splitlines()]
StrippedLines(text) ==
    LET raws == splitlines(text)
    IN [k \in 1..Len(raws) |-> rstrip(raws[k])]

\* line 72
Enders(text) ==
    LET lines == StrippedLines(text)
    IN Cardinality({k \in 1..Len(lines) : EndsWithEnder(lines[k])})

\* line 73
Assigns(text) ==
    LET lines == StrippedLines(text)
    IN Cardinality({k \in 1..Len(lines) : AssignLine(lines[k])})

\* line 74
Tags(text) ==
    LET lines == StrippedLines(text)
    IN Cardinality({k \in 1..Len(lines) : TagLine(lines[k])})

\* line 75
Blocks(text) == Count(text, Tick \o Tick \o Tick) + Count(text, "~~~")

\* line 76
AggregateFallback(text) ==
    (Enders(text) >= 3) \/ (Assigns(text) >= 3) \/ (Tags(text) >= 3)
        \/ (Blocks(text) > 0)

\* looks_like_code(text) for any value
looks_like_code(text) ==
    IF ~IsStr(text) \/ IsBlank(text.s) THEN FALSE
    ELSE IF AnyCodePattern(text.s) THEN TRUE
    ELSE AggregateFallback(text.s)

REFUSAL ==
    "I can explain the concepts at a high level, but I can't provide code "
    \o "or implementation steps on the Free plan. To get runnable examples, "
    \o "please use the premium models (Main/Power or GWEN)."

enforce_nothing(reply_text) == reply_text

\* a value in, a value out
enforce_theory_only_output(reply_text) ==
    IF looks_like_code(reply_text) THEN Str(REFUSAL) ELSE reply_text

-----------------------------------------------------------------------------
(* The request and the collaborator *)

MaxInput == 6000

TruncationMarker == " [...]"

\* one element of messages: a JSON object with an optional role and content,
\* or any other JSON value (kind "other"), which has no .get
Message(role, content) ==
    [kind |-> "object", role |-> role, has |-> TRUE, content |-> content]

MessageNoContent(role) ==
    [kind |-> "object", role |-> role, has |-> FALSE, content |-> None]

NotAnObject == [kind |-> "other", role |-> "", has |-> FALSE, content |-> None]

\* the JSON body: no JSON at all, a JSON array, or an object whose
\* "messages" is "absent", "null", "text" (a non-empty str: truthy and not a
\* list) or a "list" of items
NoBody == [kind |-> "none", msgs |-> "absent", items |-> <<>>]

ArrayBody == [kind |-> "array", msgs |-> "absent", items |-> <<>>]

ObjectBody(msgs, items) == [kind |-> "object", msgs |-> msgs, items |-> items]

NoResponse == [status |-> 0, reply |-> None, usage |-> "", mode |-> ""]

NoResult == [raised |-> FALSE, err |-> "", choices |-> 0, content |-> None, usage |-> "none"]

\* jsonify({"error": "messages[] required"}), 400
InvalidRequest == [status |-> 400, reply |-> None, usage |-> "", mode |-> ""]

\* an exception that leaves api_chat: the transport answers 500
Fault == [status |-> 500, reply |-> None, usage |-> "", mode |-> ""]

BLOCKED_REPLY ==
    "This free version doesn't provide coding or debugging. "
    \o "For code generation and developer tools, please use the premium models (Main/Power or GWEN). "
    \o "If you'd like, I can outline the approach at a high level."

BlockedEnvelope ==
    [status |-> 200, reply |-> Str(BLOCKED_REPLY),
     usage |-> "blocked:coding_request", mode |-> "blocked"]

Envelope(reply, usage, m) ==
    [status |-> 200, reply |-> reply, usage |-> usage, mode |-> m]

\* f"[Nova Free (bullet) offline {mode}] {last_user}"
OfflineReply(m, v) == Str("[Nova Free * offline " \o m \o "] " \o v.s)

\* f"Model error: {e}"
ErrorReply(e) == Str("Model error: " \o e)

RECURSIVE ScanLastUser(_, _)
\* next((m.get("content", "") for m in reversed(messages)
\*       if m.get("role") == "user"), ""): the generator stops at the first
\* user message from the end and raises on an element without .get
ScanLastUser(items, k) ==
    IF k = 0 THEN [fault |-> FALSE, v |-> Str("")]
    ELSE IF items[k].kind # "object" THEN [fault |-> TRUE, v |-> None]
    ELSE IF items[k].role = "user"
         THEN [fault |-> FALSE,
               v |-> IF items[k].has THEN items[k].content ELSE Str("")]
    ELSE ScanLastUser(items, k - 1)

\* last_user[:6000] + " [...]"
Truncated(v) ==
    IF IsStr(v) /\ Len(v.s) > MaxInput
    THEN Str(SubSeq(v.s, 1, MaxInput) \o TruncationMarker)
    ELSE v

-----------------------------------------------------------------------------
(* api_chat, step by step *)

Done(r) == pc' = "done" /\ response' = r

\* line 167: data = request.get_json(silent=True) or {}; line 168 then calls
\* data.get, which a JSON array does not have
ParseBody ==
    /\ pc = "start"
    /\ events' = Append(events, "parse")
    /\ IF body.kind = "array" THEN Done(Fault)
       ELSE pc' = "validate" /\ UNCHANGED response
    /\ UNCHANGED <<body, client, last_user, mode, calls, result, arg, ret>>

\* lines 168-170: messages = data.get("messages") or []
Validate ==
    /\ pc = "validate"
    /\ events' = Append(events, "validate")
    /\ IF body.kind = "object" /\ body.msgs = "list" /\ body.items # <<>>
       THEN pc' = "extract" /\ UNCHANGED response
       ELSE Done(InvalidRequest)
    /\ UNCHANGED <<body, client, last_user, mode, calls, result, arg, ret>>

\* line 173
ExtractLastUser ==
    /\ pc = "extract"
    /\ events' = Append(events, "extract")
    /\ LET r == ScanLastUser(body.items, Len(body.items))
       IN IF r.fault
          THEN Done(Fault) /\ UNCHANGED last_user
          ELSE pc' = "classify" /\ last_user' = r.v /\ UNCHANGED response
    /\ UNCHANGED <<body, client, mode, calls, result, arg, ret>>

ClassifyAllowAll ==
    /\ pc = "classify"
    /\ events' = Append(events, "classify")
    /\ IF Truthy(last_user) /\ ~IsStr(last_user) THEN Done(Fault)
       ELSE pc' = "route" /\ UNCHANGED response
    /\ UNCHANGED <<body, client, last_user, mode, calls, result, arg, ret>>

\* lines 176-182: DISALLOWED_INTENT.search(last_user or "") raises TypeError
\* for a truthy value that is not a str
Classify ==
    /\ pc = "classify"
    /\ events' = Append(events, "classify")
    /\ IF Truthy(last_user) /\ ~IsStr(last_user) THEN Done(Fault)
       ELSE IF DISALLOWED_INTENT(StrOr(last_user, "")) THEN Done(BlockedEnvelope)
       ELSE pc' = "route" /\ UNCHANGED response
    /\ UNCHANGED <<body, client, last_user, mode, calls, result, arg, ret>>

\* lines 184-186: mode, and the system prompt bound to it
Route ==
    /\ pc = "route"
    /\ events' = Append(events, "route")
    /\ mode' = detect_mode(last_user)
    /\ pc' = "truncate"
    /\ UNCHANGED <<body, client, last_user, calls, result, response, arg, ret>>

\* lines 189-190
Truncate ==
    /\ pc = "truncate"
    /\ events' = Append(events, "truncate")
    /\ last_user' = Truncated(last_user)
    /\ pc' = "client"
    /\ UNCHANGED <<body, client, mode, calls, result, response, arg, ret>>

\* lines 192-201: the offline reply when get_client() is None
Dispatch ==
    /\ pc = "client"
    /\ events' = Append(events, "client")
    /\ IF client = "none"
       THEN Done(Envelope(OfflineReply(mode, last_user), "offline", mode))
       ELSE pc' = "call" /\ UNCHANGED response
    /\ UNCHANGED <<body, client, last_user, mode, calls, result, arg, ret>>

\* what the collaborator can do with one call: raise, return no choice,
\* or return one choice whose content is a text or null
Failures == {"Connection error."}

RawReplies ==
    {Str("Python is a programming language."),
     Str("x;\ny;\nz;"),
     Str("Use " \o Tick \o Tick \o Tick \o "print(1)" \o Tick \o Tick \o Tick),
     Str(""),
     None}

Outcomes ==
    {[raised |-> TRUE, err |-> e, choices |-> 0, content |-> None, usage |-> "none"]
        : e \in Failures}
    \cup {[raised |-> FALSE, err |-> "", choices |-> 0, content |-> None, usage |-> "none"]}
    \cup {[raised |-> FALSE, err |-> "", choices |-> 1, content |-> c, usage |-> u]
        : c \in RawReplies, u \in {"none", "tokens"}}

\* lines 204-209: one create() call with the system prompt of the mode
\* (EXTRA_GUARD_PROMPT + TASK_PROMPTS[mode]) and the messages of the request
Call ==
    /\ pc = "call"
    /\ events' = Append(events, "generate")
    /\ calls' = Append(calls, [system |-> mode, messages |-> body.items])
    /\ \E o \in Outcomes : result' = o
    /\ pc' = "returned"
    /\ UNCHANGED <<body, client, last_user, mode, response, arg, ret>>

FinishRetry ==
    /\ pc = "returned"
    /\ events' = Append(events, "finish")
    /\ IF result.raised /\ Len(calls) < 2
       THEN pc' = "call" /\ UNCHANGED response
       ELSE IF result.raised \/ result.choices = 0
       THEN Done(Envelope(ErrorReply(result.err), "error", mode))
       ELSE Done(Envelope(enforce_theory_only_output(result.content),
                          result.usage, mode))
    /\ UNCHANGED <<body, client, last_user, mode, calls, result, arg, ret>>

\* lines 210-228: the guarded reply, or the except branch; an empty
\* choices list raises IndexError inside the try
Finish ==
    /\ pc = "returned"
    /\ events' = Append(events, "finish")
    /\ IF result.raised
       THEN Done(Envelope(ErrorReply(result.err), "error", mode))
       ELSE IF result.choices = 0
       THEN Done(Envelope(ErrorReply("list index out of range"), "error", mode))
       ELSE Done(Envelope(enforce_theory_only_output(result.content),
                          result.usage, mode))
    /\ UNCHANGED <<body, client, last_user, mode, calls, result, arg, ret>>

ChatNext ==
    \/ ParseBody
    \/ Validate
    \/ ExtractLastUser
    \/ Classify
    \/ Route
    \/ Truncate
    \/ Dispatch
    \/ Call
    \/ Finish

-----------------------------------------------------------------------------
(* Requests *)

MaxMsgs == 2

LongExtra == 7

LongText == Repeat("a", MaxInput + LongExtra)

Lists(E, n) == UNION {[1..k -> E] : k \in 0..n}

Bodies(E) ==
    {NoBody, ArrayBody}
    \cup {ObjectBody(k, <<>>) : k \in {"absent", "null", "text"}}
    \cup {ObjectBody("list", q) : q \in Lists(E, MaxMsgs)}

Entries ==
    {Message("user", Str(t)) :
        t \in {"hello there", "write a script",
               "please write an outline and a brief", "a;"}}
    \cup {Message("user", None), Message("user", Number), MessageNoContent("user"),
          Message("assistant", Str("hello there")),
          Message("assistant", Str("write a script")),
          NotAnObject}

LongEntries ==
    {Message("user", Str(LongText)), Message("user", Str("write a script")),
     Message("user", Number), Message("assistant", Str("hello there")),
     NotAnObject}

NoArg == [phase |-> "idle"]

ChatInit(E) ==
    /\ body \in Bodies(E)
    /\ client \in {"configured", "none"}
    /\ pc = "start"
    /\ last_user = None
    /\ mode = ""
    /\ calls = <<>>
    /\ result = NoResult
    /\ response = NoResponse
    /\ events = <<>>
    /\ arg = NoArg
    /\ ret = ""

Init == ChatInit(Entries)

Next == ChatNext

Spec == Init /\ [][Next]_vars

InitLong == ChatInit(LongEntries)

SpecLong == InitLong /\ [][Next]_vars

-----------------------------------------------------------------------------
(* Claims about api_chat *)

Steps == SetOfSeq(events)

\* the request reached the collaborator and got one choice back
Completed == calls # <<>> /\ ~result.raised /\ result.choices = 1

\* messages is missing, not a list, or empty
MessagesInvalid == body.kind # "object" \/ body.msgs # "list" \/ body.items = <<>>

\* a non-empty list none of whose elements is a user-role message
NoUserMessage ==
    /\ ~MessagesInvalid
    /\ \A k \in 1..Len(body.items) :
          ~(body.items[k].kind = "object" /\ body.items[k].role = "user")

\* C1: in every handling of a chat request the intent classification comes
\* before mode routing and before any call of the collaborator; when the
\* classified text is a coding request the handler has returned the blocked
\* envelope (mode "blocked", usage blocked/coding_request) in that very step,
\* without routing and without any call.
C1_ClassifyFirstAndShortCircuit ==
    /\ \A k \in 1..Len(events) :
          events[k] \in {"route", "generate"}
              => \E j \in 1..(k - 1) : events[j] = "classify"
    /\ ( /\ "classify" \in Steps
         /\ "truncate" \notin Steps
         /\ ~(Truthy(last_user) /\ ~IsStr(last_user))
         /\ DISALLOWED_INTENT(StrOr(last_user, "")) )
       => ( /\ pc = "done"
            /\ response = BlockedEnvelope
            /\ calls = <<>>
            /\ Steps \cap {"route", "generate"} = {} )
    /\ response.mode = "blocked" => calls = <<>>

\* a coding request, with a collaborator configured, answered by the blocked
\* envelope right after classification
C1_Witness ==
    /\ pc = "done"
    /\ client = "configured"
    /\ response = BlockedEnvelope
    /\ events = <<"parse", "validate", "extract", "classify">>
    /\ calls = <<>>

\* C2: the last-user text that reaches the collaborator is never longer than
\* the cap of 6000 characters plus the truncation marker.
C2_ForwardedTextCapped ==
    \A k \in 1..Len(calls) :
        LET r == ScanLastUser(calls[k].messages, Len(calls[k].messages))
        IN (~r.fault /\ IsStr(r.v))
              => Len(r.v.s) <= MaxInput + Len(TruncationMarker)

\* C3: every chat request whose body is a JSON object, whatever its messages
\* list holds, ends in a 400 InvalidRequest or a 200 envelope; no unhandled
\* fault ends the processing of the request.
C3_NoUnhandledFault ==
    (pc = "done" /\ body.kind = "object") => response.status \in {200, 400}

\* C5: on a successful real completion the reply of the envelope is the
\* refusal when the raw reply looks like code and the raw reply itself
\* otherwise, so the returned reply never looks like code.
C5_ReplyIsGuardedRawReply ==
    (pc = "done" /\ Completed)
        => /\ response.status = 200
           /\ response.reply =
                 IF looks_like_code(result.content) THEN Str(REFUSAL)
                                                    ELSE result.content
           /\ ~looks_like_code(response.reply)

\* a completion whose raw reply looks like code, answered by the refusal
C5_Witness ==
    /\ pc = "done"
    /\ Completed
    /\ looks_like_code(result.content)
    /\ response.reply = Str(REFUSAL)

\* C7: the collaborator is called at most once per request; when that call
\* raises, the request ends in a 200 envelope whose reply embeds the failure
\* description, whose usage is {error: true} and whose mode is the mode the
\* router chose before the call.
C7_OneCallAndErrorEnvelope ==
    /\ Len(calls) <= 1
    /\ (pc = "done" /\ calls # <<>> /\ result.raised)
          => /\ response.status = 200
             /\ IsStr(response.reply)
             /\ Contains(response.reply.s, result.err)
             /\ response.usage = "error"
             /\ response.mode = calls[1].system
             /\ response.mode = mode

\* a failed call on a request routed to outline
C7_Witness ==
    /\ pc = "done"
    /\ Len(calls) = 1
    /\ result.raised
    /\ response.usage = "error"
    /\ response.mode = "outline"

\* C8: the request fails with 400 exactly when messages is missing, not a
\* list, or empty, and then nothing is classified, routed or generated;
\* every non-empty conversation without a user-role message is accepted,
\* classified as allowed with empty last-user text and routed to general.
\* (Stated for the bodies that are a JSON object or no JSON at all.)
C8_InvalidExactlyAndNoUserAccepted ==
    (pc = "done" /\ body.kind # "array")
        => /\ (response.status = 400) <=> MessagesInvalid
           /\ MessagesInvalid
                 => Steps \cap {"classify", "route", "generate"} = {}
           /\ NoUserMessage
                 => /\ response.status = 200
                    /\ last_user = Str("")
                    /\ {"classify", "route"} \subseteq Steps
                    /\ response.mode = "general"

\* C9: with no collaborator the reply is the offline echo of the mode and
\* the truncated last-user text with usage {mode: offline}, and that reply
\* is never code-like.
C9_OfflineReplyCodeFree ==
    (pc = "done" /\ response.usage = "offline")
        => /\ response = Envelope(OfflineReply(mode, last_user), "offline", mode)
           /\ ~looks_like_code(response.reply)

-----------------------------------------------------------------------------
(* The pure functions on their own: the handler is idle, arg holds the      *)
(* input and ret the result.                                                *)

ChatIdle ==
    /\ body = NoBody
    /\ client = "none"
    /\ pc = "idle"
    /\ last_user = None
    /\ mode = ""
    /\ calls = <<>>
    /\ result = NoResult
    /\ response = NoResponse
    /\ events = <<>>

RECURSIVE Join(_, _)
\* sep.join(parts)
Join(parts, sep) ==
    IF Len(parts) = 0 THEN ""
    ELSE IF Len(parts) = 1 THEN parts[1]
    ELSE parts[1] \o sep \o Join(Tail(parts), sep)

(* detect_mode on texts made of words separated by blanks.  Each word is a  *)
(* trigger of the routing table, in some letter case, or a word that        *)
(* triggers nothing; rank is the place of the trigger's mode in the         *)
(* documented order (NoRank: no mode).                                      *)

MaxWords == 2

NoRank == Len(Modes) + 1

ModeWords ==
    {[s |-> "keyword", rank |-> 1], [s |-> "Cluster", rank |-> 1],
     [s |-> "outline", rank |-> 2], [s |-> "H1", rank |-> 2],
     [s |-> "h2", rank |-> 2],
     [s |-> "brief", rank |-> 3], [s |-> "Content Brief", rank |-> 3],
     [s |-> "meta", rank |-> 4], [s |-> "title tag", rank |-> 4],
     [s |-> "META DESCRIPTION", rank |-> 4],
     [s |-> "research", rank |-> 5], [s |-> "Sources", rank |-> 5],
     [s |-> "summary", rank |-> 5],
     [s |-> "article", rank |-> 6], [s |-> "blog post", rank |-> 6],
     [s |-> "Write About", rank |-> 6],
     [s |-> "hello", rank |-> NoRank], [s |-> "there", rank |-> NoRank]}

ModeText(a) ==
    IF a.missing THEN None
    ELSE Str(Join([k \in 1..Len(a.words) |-> a.words[k].s], " "))

ModeInit ==
    /\ ChatIdle
    /\ arg \in {[phase |-> "build", missing |-> b, words |-> <<>>] : b \in BOOLEAN}
    /\ ret = ""

ModeAddWord ==
    /\ arg.phase = "build"
    /\ ~arg.missing
    /\ Len(arg.words) < MaxWords
    /\ \E w \in ModeWords : arg' = [arg EXCEPT !.words = Append(@, w)]
    /\ UNCHANGED <<ret, chatVars>>

ModeApply ==
    /\ arg.phase = "build"
    /\ arg' = [arg EXCEPT !.phase = "applied"]
    /\ ret' = detect_mode(ModeText(arg))
    /\ UNCHANGED chatVars

ModeNext == ModeAddWord \/ ModeApply

SpecMode == ModeInit /\ [][ModeNext]_vars

\* the least rank among the words of the text
LeastRank(a) ==
    LET ranks == {a.words[k].rank : k \in 1..Len(a.words)} \cup {NoRank}
    IN CHOOSE r \in ranks : \A q \in ranks : r <= q

\* C4: detect_mode returns the mode of the first test, in the order
\* keywords, outline, brief, meta, research, article, that the lower-cased
\* text matches, and general when no test matches or the text is empty or
\* missing.
C4_FirstMatchInFixedOrder ==
    arg.phase = "applied"
        => ret = IF LeastRank(arg) = NoRank THEN "general"
                 ELSE Modes[LeastRank(arg)]

\* "brief outline": both tests match and the earlier one, outline, wins
C4_Witness ==
    /\ arg.phase = "applied"
    /\ Len(arg.words) = 2
    /\ arg.words[1].s = "brief"
    /\ arg.words[2].s = "outline"
    /\ ret = "outline"

(* DISALLOWED_INTENT on texts  pre verb sep fill^n noun suf  *)

ShortGap == 1

OverGap == 1

GapLens == (0..ShortGap) \cup ((SpanLimit - 2)..(SpanLimit + OverGap))

IntentInputs ==
    [phase : {"build"},
     pre   : {"", "re", "please "},
     verb  : {"write", "FIX", "Unit-Test"},
     sep   : {" ", "-", " a ", " a\n"},
     fill  : {"x"},
     n     : GapLens,
     noun  : {"script", "CODE", "sql  query"},
     suf   : {"", "s", "."}]

\* what separates the verb from the noun
IntentGap(a) == a.sep \o Repeat(a.fill, a.n)

IntentText(a) == a.pre \o a.verb \o IntentGap(a) \o a.noun \o a.suf

\* lines 176-182 as the classification they amount to
ClassifyText(t) ==
    IF DISALLOWED_INTENT(t) THEN [allowed |-> FALSE, reason |-> "coding_request"]
                            ELSE [allowed |-> TRUE, reason |-> "none"]

IntentInit ==
    /\ ChatIdle
    /\ arg \in IntentInputs
    /\ ret = ""

IntentApply ==
    /\ arg.phase = "build"
    /\ arg' = [arg EXCEPT !.phase = "applied"]
    /\ ret' = ClassifyText(IntentText(arg))
    /\ UNCHANGED chatVars

IntentNext == IntentApply

SpecIntent == IntentInit /\ [][IntentNext]_vars

Blocked == [allowed |-> FALSE, reason |-> "coding_request"]

\* the verb starts a word, white space follows it at once, and the noun
\* ends a word
WordBounded(a) ==
    /\ a.pre = "" \/ ~IsWord(Ch(a.pre, Len(a.pre)))
    /\ IntentGap(a) # "" /\ IsSpace(Ch(IntentGap(a), 1))
    /\ a.suf = "" \/ ~IsWord(Ch(a.suf, 1))

\* C6 as claimed: every message in which a verb of the set is followed
\* within 80 characters by a noun of the set is classified as a coding
\* request, whatever surrounds the pair.
C6_AnyPairBlocked ==
    (arg.phase = "applied" /\ Len(IntentGap(arg)) <= SpanLimit)
        => ret = Blocked

\* C6 as amended: the same, for a verb that starts at a word boundary and is
\* followed at once by white space and a noun that ends at a word boundary.
C6_WordBoundedPairBlocked ==
    (arg.phase = "applied" /\ Len(IntentGap(arg)) <= SpanLimit /\ WordBounded(arg))
        => ret = Blocked

\* "please FIX" + a blank + 79 more characters + "CODE." is blocked
C6_Witness ==
    /\ arg.phase = "applied"
    /\ WordBounded(arg)
    /\ arg.pre = "please " /\ arg.verb = "FIX" /\ arg.noun = "CODE" /\ arg.suf = "."
    /\ Len(IntentGap(arg)) = SpanLimit
    /\ ret = Blocked

(* looks_like_code on texts made of lines joined by one line break *)

MaxLines == 3

GuardLines == {"", "hello", "a; ", "{", "x = 1", "x =", "<a>", " <b> ", "~~~"}

GuardText(a) == Join(a.lines, a.sep)

GuardInit ==
    /\ ChatIdle
    /\ arg \in {[phase |-> "build", sep |-> b, lines |-> <<>>] : b \in {"\n", "\r"}}
    /\ ret = ""

GuardAddLine ==
    /\ arg.phase = "build"
    /\ Len(arg.lines) < MaxLines
    /\ \E l \in GuardLines : arg' = [arg EXCEPT !.lines = Append(@, l)]
    /\ UNCHANGED <<ret, chatVars>>

GuardApply ==
    /\ arg.phase = "build"
    /\ arg' = [arg EXCEPT !.phase = "applied"]
    /\ LET t == GuardText(arg)
       IN ret' = [result   |-> looks_like_code(Str(t)),
                  primary  |-> AnyCodePattern(t),
                  fallback |-> AggregateFallback(t),
                  shaped   |-> Enders(t) + Assigns(t) + Tags(t)]
    /\ UNCHANGED chatVars

GuardNext == GuardAddLine \/ GuardApply

SpecGuard == GuardInit /\ [][GuardNext]_vars

=============================================================================
